---- MODULE Spec2Model ----
(***************************************************************************)
(* Generalized Ising annealer of Project_4_Ising_Annealer/Task_3.ipynb:    *)
(* the class GeneralizedIsingModel (energy, energy_diff, rand_site), the   *)
(* Metropolis step it inherits, the annealing runs, the exhaustive search  *)
(* and the per-R driver loop.                                              *)
(*                                                                         *)
(* Energies are integers here (the notebook's are floats): coefficients    *)
(* are drawn from small integer tensors, so sums are exact.                *)
(***************************************************************************)
EXTENDS Integers, Sequences, FiniteSets, TLC

(***************************************************************************)
(* Bounds of the model.                                                    *)
(***************************************************************************)
\* number of spin sites (the notebook constructs every model with 4)
NumSpins == 2
\* one unit of run length: the notebook's 1000 steps
Scale == 1
\* iterations of the per-R driver loop (the notebook's range(0,20))
NumR == 2

VARIABLES
    ising,    \* the object `ising`: E0, h, J, K, L, N, spins, view
    space,    \* the enumeration table of cell 14 (<<>> until it is built)
    rng,      \* numpy's global random source
    call,     \* the last call made on `ising` and what it returned
    pc,       \* position in the notebook
    nb,       \* the notebook's globals: T_exp, t, E, i, min, mc_energy, ...
    runs,     \* history: the temperatures each finished run was driven with
    trace     \* history: what each finished run drew and decided

vars == <<ising, space, rng, call, pc, nb, runs, trace>>

(***************************************************************************)
(* Spin configurations and coefficient tensors.                            *)
(***************************************************************************)
Idx(n) == 0 .. (n - 1)

SpinValues == {-1, 1}

Configs(n) == [Idx(n) -> SpinValues]

\* sum of f[0] .. f[n-1], accumulated in index order as a for-loop does
RECURSIVE LoopSum(_, _)
LoopSum(f, n) == IF n = 0 THEN 0 ELSE LoopSum(f, n - 1) + f[n - 1]

\* The coefficient tensors handed to the constructor.  Dense tensors whose
\* entries differ from each other, are not symmetric and are not zero on
\* repeated indices, scaled by a, b, c, d.
DenseModel(n, e0, a, b, c, d) ==
    [E0 |-> e0,
     h  |-> [i \in Idx(n) |-> a * (i + 1)],
     J  |-> [p \in Idx(n) \X Idx(n) |-> b * (2 * p[1] - p[2] + 1)],
     K  |-> [p \in Idx(n) \X Idx(n) \X Idx(n) |-> c * (p[1] + 2 * p[2] - p[3])],
     L  |-> [p \in Idx(n) \X Idx(n) \X Idx(n) \X Idx(n) |->
                d * (p[1] - p[2] + p[3] * p[4] + 1)]]

Scales == {0, 1}

\* every subset of the four interaction orders switched on, and two models
\* of mixed sign
ModelFamily(n) ==
    { DenseModel(n, 1, a, b, c, d) :
        a \in Scales, b \in Scales, c \in Scales, d \in Scales }
    \cup { DenseModel(n, 0, -1, 1, -1, 1), DenseModel(n, 0, 1, -1, 1, -1) }

\* what the files ./hamiltonians/...R=<r>.inp can hold
Hamiltonians(n) ==
    { DenseModel(n, 0, -1, 1, -1, 1), DenseModel(n, 1, 1, 1, 0, 0) }

(***************************************************************************)
(* class GeneralizedIsingModel                                             *)
(***************************************************************************)
\* energy(): four nested loops over range(0, N), every index independent
energy_dedup(m, s, n) ==
    LET tot_h == LoopSum([i \in Idx(n) |-> m.h[i] * s[i]], n)
        tot_J == LoopSum([i \in Idx(n) |->
                   LoopSum([j \in Idx(n) |->
                     IF j < i THEN 0 ELSE m.J[<<i, j>>] * (s[i] * s[j])], n)], n)
        tot_K == LoopSum([i \in Idx(n) |->
                   LoopSum([j \in Idx(n) |->
                     LoopSum([k \in Idx(n) |->
                       IF j < i \/ k < j THEN 0
                       ELSE m.K[<<i, j, k>>] * (s[i] * s[j] * s[k])], n)], n)], n)
        tot_L == LoopSum([i \in Idx(n) |->
                   LoopSum([j \in Idx(n) |->
                     LoopSum([k \in Idx(n) |->
                       LoopSum([l \in Idx(n) |->
                         IF j < i \/ k < j \/ l < k THEN 0
                         ELSE m.L[<<i, j, k, l>>] * (s[i] * s[j] * s[k] * s[l])],
                         n)], n)], n)], n)
    IN  m.E0 + tot_h + tot_J + tot_K + tot_L

energy(m, s, n) ==
    LET tot_h == LoopSum([i \in Idx(n) |-> m.h[i] * s[i]], n)
        tot_J == LoopSum([i \in Idx(n) |->
                   LoopSum([j \in Idx(n) |->
                     m.J[<<i, j>>] * (s[i] * s[j])], n)], n)
        tot_K == LoopSum([i \in Idx(n) |->
                   LoopSum([j \in Idx(n) |->
                     LoopSum([k \in Idx(n) |->
                       m.K[<<i, j, k>>] * (s[i] * s[j] * s[k])], n)], n)], n)
        tot_L == LoopSum([i \in Idx(n) |->
                   LoopSum([j \in Idx(n) |->
                     LoopSum([k \in Idx(n) |->
                       LoopSum([l \in Idx(n) |->
                         m.L[<<i, j, k, l>>] * (s[i] * s[j] * s[k] * s[l])],
                         n)], n)], n)], n)
    IN  m.E0 + tot_h + tot_J + tot_K + tot_L

\* numpy indexing of a length-n vector: -n .. -1 count from the end,
\* anything outside -n .. n-1 raises IndexError
IndexOk(i, n) == -n <= i /\ i < n

PyIndex(i, n) == IF i < 0 THEN i + n ELSE i

\* self.spins[i] = (-1)*self.spins[i]
FlipAt(s, k) == [s EXCEPT ![k] = (-1) * s[k]]

\* energy_diff(i): e1, flip, e2, revert, return e2 - e1.  The outcome is the
\* exception raised ("no" when the call returns), the value returned (0 when
\* it raises) and the spins left behind.
energy_diff_swapped(m, s, n, i) ==
    IF ~IndexOk(i, n)
    THEN [raised |-> "IndexError", val |-> 0, spins |-> s]
    ELSE LET e1 == energy(m, s, n)
             s1 == FlipAt(s, PyIndex(i, n))
             e2 == energy(m, s1, n)
             s2 == FlipAt(s1, PyIndex(i, n))
         IN  [raised |-> "no", val |-> e1 - e2, spins |-> s2]

energy_diff_stale(m, s, n, i) ==
    IF ~IndexOk(i, n)
    THEN [raised |-> "IndexError", val |-> 0, spins |-> s]
    ELSE LET e1 == energy(m, s, n)
             e2 == energy(m, s, n)
             s1 == FlipAt(s, PyIndex(i, n))
             s2 == FlipAt(s1, PyIndex(i, n))
         IN  [raised |-> "no", val |-> e2 - e1, spins |-> s2]

energy_diff_norevert(m, s, n, i) ==
    IF ~IndexOk(i, n)
    THEN [raised |-> "IndexError", val |-> 0, spins |-> s]
    ELSE LET e1 == energy(m, s, n)
             s1 == FlipAt(s, PyIndex(i, n))
             e2 == energy(m, s1, n)
         IN  [raised |-> "no", val |-> e2 - e1, spins |-> s1]

energy_diff(m, s, n, i) ==
    IF ~IndexOk(i, n)
    THEN [raised |-> "IndexError", val |-> 0, spins |-> s]
    ELSE LET e1 == energy(m, s, n)
             s1 == FlipAt(s, PyIndex(i, n))
             e2 == energy(m, s1, n)
             s2 == FlipAt(s1, PyIndex(i, n))
         IN  [raised |-> "no", val |-> e2 - e1, spins |-> s2]

\* the vector `ising.spins` names: its own array, or row `view` of `space`
\* when cell 14 or 16 bound it with ising.spins = space[i]
OwnArray == -1

Spins(obj, sp) == IF obj.view = OwnArray THEN obj.spins ELSE sp[obj.view + 1]

\* an in-place write to ising.spins lands in the array it names
StoreObj(obj, s) == IF obj.view = OwnArray THEN [obj EXCEPT !.spins = s] ELSE obj

StoreSpace_lastrow(obj, sp, s) ==
    IF obj.view # OwnArray THEN [sp EXCEPT ![obj.view + 1] = s]
    ELSE IF sp = <<>> THEN sp
    ELSE [sp EXCEPT ![Len(sp)] = s]

StoreSpace(obj, sp, s) ==
    IF obj.view = OwnArray THEN sp ELSE [sp EXCEPT ![obj.view + 1] = s]

(***************************************************************************)
(* numpy's global random source.  A seeded generator produces one fixed    *)
(* sequence of draws; which sequence is unknown, so it is discovered as it *)
(* is consumed: memo[p] holds, for the p-th draw after seed(4), the value  *)
(* each use of that draw produced, and a replay must produce it again.     *)
(* An unseeded generator (seeded by the OS at import) is unconstrained.    *)
(* With rng.track off the sequence is not remembered and every draw is     *)
(* free: that admits every sequence a generator can produce.               *)
(***************************************************************************)
InitUse == [kind |-> "rand<0.5", d |-> 0, T |-> 0]

SiteUse == [kind |-> "randint", d |-> 0, T |-> 0]

AcceptUse(d, T) == [kind |-> "rand<exp(-d/T)", d |-> d, T |-> T]

Known(g, use) ==
    IF g.seeded /\ g.track /\ g.pos < Len(g.memo)
    THEN { e \in g.memo[g.pos + 1] : e.use = use }
    ELSE {}

Outcomes(g, use, range) ==
    IF Known(g, use) = {} THEN range ELSE { e.val : e \in Known(g, use) }

Drawn(g, use, v) ==
    IF ~(g.seeded /\ g.track) THEN g
    ELSE [g EXCEPT
            !.pos = @ + 1,
            !.memo = IF g.pos < Len(g.memo)
                     THEN [@ EXCEPT ![g.pos + 1] = @ \cup {[use |-> use, val |-> v]}]
                     ELSE Append(@, {[use |-> use, val |-> v]})]

\* np.random.seed(4)
seed_noreset(g) == [g EXCEPT !.seeded = TRUE]

seed(g) == [g EXCEPT !.seeded = TRUE, !.pos = 0]

\* np.random.rand(k) < 0.5, one draw per entry: every (bits, generator) pair
\* the generator can produce
RECURSIVE RandBits(_, _)
RandBits(g, k) ==
    IF k = 0 THEN {[bits |-> <<>>, g |-> g]}
    ELSE UNION { { [bits |-> Append(r.bits, v), g |-> Drawn(r.g, InitUse, v)] :
                     v \in Outcomes(r.g, InitUse, {0, 1}) } :
                 r \in RandBits(g, k - 1) }

\* __init__: store the tensors, spins = 2*(np.random.rand(N) < 0.5) - 1
New(ham, n, bits) ==
    [E0 |-> ham.E0, h |-> ham.h, J |-> ham.J, K |-> ham.K, L |-> ham.L,
     N |-> n, spins |-> [i \in Idx(n) |-> 2 * bits[i + 1] - 1], view |-> OwnArray]

\* rand_site(): (np.random.randint(self.N),)
rand_site(g, n) == { [site |-> v, g |-> Drawn(g, SiteUse, v)] :
                       v \in Outcomes(g, SiteUse, Idx(n)) }

(***************************************************************************)
(* The Metropolis step of the base class AbstractIsing (abstract_ising.py, *)
(* not part of the notebook): draw a site, d = energy_diff(site), accept   *)
(* when d <= 0, otherwise when a uniform draw falls below exp(-d/T); flip  *)
(* on acceptance; return the energy after the decision.                    *)
(***************************************************************************)
\* the outcomes of comparing a uniform draw with exp(-d/T), 0 < exp(-d/T) < 1
Accepts(g, d, T) ==
    IF d <= 0 THEN {[acc |-> TRUE, g |-> g]}
    ELSE { [acc |-> (v = 1), g |-> Drawn(g, AcceptUse(d, T), v)] :
             v \in Outcomes(g, AcceptUse(d, T), {0, 1}) }

mc_step(obj, s, g, T) ==
    LET energyBefore == energy(obj, s, obj.N) IN
    UNION { LET dr == energy_diff(obj, s, obj.N, rs.site) IN
              { [spins    |-> IF a.acc THEN FlipAt(dr.spins, rs.site) ELSE dr.spins,
                 g        |-> a.g,
                 site     |-> rs.site,
                 d        |-> dr.val,
                 accepted |-> a.acc,
                 E        |-> IF a.acc THEN energyBefore + dr.val ELSE energyBefore] :
                a \in Accepts(rs.g, dr.val, T) } :
            rs \in rand_site(g, obj.N) }

(***************************************************************************)
(* The record of the last call on `ising`.                                 *)
(***************************************************************************)
NoCall ==
    [op |-> "none", arg |-> 0, pre |-> <<>>, raised |-> "no", val |-> 0,
     site |-> 0, d |-> 0, accepted |-> FALSE]

EnergyCall(obj, s) ==
    [NoCall EXCEPT !.op = "energy", !.pre = s, !.val = energy(obj, s, obj.N)]

DiffCall(i, s, r) ==
    [NoCall EXCEPT !.op = "energy_diff", !.arg = i, !.pre = s,
                   !.raised = r.raised, !.val = r.val]

StepCall(T, s, r) ==
    [NoCall EXCEPT !.op = "mc_step", !.arg = T, !.pre = s, !.val = r.E,
                   !.site = r.site, !.d = r.d, !.accepted = r.accepted]

(***************************************************************************)
(* Calls on one model object, in any order and with any arguments.         *)
(***************************************************************************)
\* site indices tried, in and out of range
SiteArgs == (0 - NumSpins - 1) .. NumSpins

\* temperatures tried (any positive value)
Temperatures == {1}

NoNotebook == [cell |-> 0]

InitEval ==
    /\ \E ham \in ModelFamily(NumSpins), s \in Configs(NumSpins) :
         ising = [E0 |-> ham.E0, h |-> ham.h, J |-> ham.J, K |-> ham.K,
                  L |-> ham.L, N |-> NumSpins, spins |-> s, view |-> OwnArray]
    /\ space = <<>>
    /\ rng = [seeded |-> FALSE, track |-> FALSE, pos |-> 0, memo |-> <<>>]
    /\ call = NoCall
    /\ pc = "calls"
    /\ nb = NoNotebook
    /\ runs = <<>>
    /\ trace = <<>>

CallEnergy ==
    /\ pc = "calls"
    /\ call' = EnergyCall(ising, Spins(ising, space))
    /\ UNCHANGED <<ising, space, rng, pc, nb, runs, trace>>

CallEnergyDiff ==
    /\ pc = "calls"
    /\ \E i \in SiteArgs :
         LET s == Spins(ising, space)
             r == energy_diff(ising, s, ising.N, i)
         IN  /\ ising' = StoreObj(ising, r.spins)
             /\ space' = StoreSpace(ising, space, r.spins)
             /\ call' = DiffCall(i, s, r)
    /\ UNCHANGED <<rng, pc, nb, runs, trace>>

CallMcStep ==
    /\ pc = "calls"
    /\ \E T \in Temperatures :
         LET s == Spins(ising, space) IN
         \E r \in mc_step(ising, s, rng, T) :
             /\ ising' = StoreObj(ising, r.spins)
             /\ space' = StoreSpace(ising, space, r.spins)
             /\ rng' = r.g
             /\ call' = StepCall(T, s, r)
    /\ UNCHANGED <<pc, nb, runs, trace>>

NextEval == CallEnergy \/ CallEnergyDiff \/ CallMcStep

SpecEval == InitEval /\ [][NextEval]_vars

(***************************************************************************)
(* The notebook from cell 12 on: the annealing run, the exhaustive search  *)
(* and the per-R driver loop.                                              *)
(***************************************************************************)
\* N = 2000 (cells 12 and 16): the length of the temperature table
ScheduleLen == 2 * Scale

\* for t in range(1000) (cell 12)
Cell12Steps == Scale

\* for t in range(2000) (cell 16)
Cell16Steps == 2 * Scale

\* T_exp = T_i * ((T_f/T_i) ** (t/N)) for t = arange(N): positive and strictly
\* decreasing in t.  Entry t is written n - t, which orders the same way.
Schedule(n) == [k \in 1 .. n |-> n - (k - 1)]

RECURSIVE Pow2(_)
Pow2(k) == IF k = 0 THEN 1 ELSE 2 * Pow2(k - 1)

\* row c of space = 2*((dim[:, None] & (1 << np.arange(n))) > 0).astype(int) - 1
SpaceRow_shift(c, n) ==
    [b \in Idx(n) |-> IF (c \div Pow2(b + 1)) % 2 = 1 THEN 1 ELSE -1]

SpaceRow(c, n) == [b \in Idx(n) |-> IF (c \div Pow2(b)) % 2 = 1 THEN 1 ELSE -1]

BuildSpace(n) == [k \in 1 .. Pow2(n) |-> SpaceRow(k - 1, n)]

\* min is None, or a number
None == [none |-> TRUE, val |-> 0]

\* if min == None: min = temp_energy / elif min > temp_energy: min = temp_energy
MinUpdate_first(min, temp_energy) ==
    IF min.none THEN [none |-> FALSE, val |-> temp_energy] ELSE min

MinUpdate_max(min, temp_energy) ==
    IF min.none THEN [none |-> FALSE, val |-> temp_energy]
    ELSE IF min.val < temp_energy THEN [none |-> FALSE, val |-> temp_energy]
    ELSE min

MinUpdate(min, temp_energy) ==
    IF min.none THEN [none |-> FALSE, val |-> temp_energy]
    ELSE IF min.val > temp_energy THEN [none |-> FALSE, val |-> temp_energy]
    ELSE min

\* if min == mc_energy: print("... could find ...") else: print("... couldn't ...")
Report(min, mc_energy) ==
    IF ~min.none /\ min.val = mc_energy THEN "could" ELSE "couldn't"

\* the run in progress: the table it was set up with, the temperatures
\* handed to mc_step so far, the configuration and energy it has reached
NoRun == [cell |-> 0, table |-> <<>>, temps |-> <<>>, final |-> <<>>, E |-> 0]

\* what the run in progress drew (kept while the stream is tracked)
NoLog == [ham |-> <<>>, spins0 |-> <<>>, sites |-> <<>>, accepts |-> <<>>]

InitCells(track) ==
    /\ \E ham \in Hamiltonians(NumSpins), s \in Configs(NumSpins) :
         /\ ising = [E0 |-> ham.E0, h |-> ham.h, J |-> ham.J, K |-> ham.K,
                     L |-> ham.L, N |-> NumSpins, spins |-> s, view |-> OwnArray]
         /\ nb = [cell |-> 12, ham |-> ham, N |-> 0, T_exp |-> <<>>, t |-> 0,
                  E |-> 0, i |-> 0, min |-> None, temp_energy |-> 0,
                  ground |-> None, r |-> 0, mc_energy |-> 0, report |-> "",
                  run |-> NoRun, log |-> NoLog, evals |-> <<>>]
    /\ space = <<>>
    /\ rng = [seeded |-> FALSE, track |-> track, pos |-> 0, memo |-> <<>>]
    /\ call = NoCall
    /\ pc = "schedule"
    /\ runs = <<>>
    /\ trace = <<>>

InitNotebook == InitCells(FALSE)

InitRepro == InitCells(TRUE)

\* N = 2000; t = np.arange(N); T_i = 100; T_f = 0.01; T_exp = ...
BuildSchedule ==
    /\ pc = "schedule"
    /\ nb' = [nb EXCEPT !.N = ScheduleLen, !.T_exp = Schedule(ScheduleLen)]
    /\ pc' = IF nb.cell = 12 THEN "seed" ELSE "read"
    /\ UNCHANGED <<ising, space, rng, call, runs, trace>>

\* E0, h, J, K, L = read_generalized_ising_hamiltonian(filename)
ReadHamiltonian ==
    /\ pc = "read"
    /\ \E ham \in Hamiltonians(NumSpins) : nb' = [nb EXCEPT !.ham = ham]
    /\ pc' = "seed"
    /\ UNCHANGED <<ising, space, rng, call, runs, trace>>

\* np.random.seed(4)
Seed ==
    /\ pc = "seed"
    /\ rng' = seed(rng)
    /\ pc' = "new"
    /\ UNCHANGED <<ising, space, call, nb, runs, trace>>

\* ising = GeneralizedIsingModel(E0,h,J,K,L,4)
Construct ==
    /\ pc = "new"
    /\ \E rb \in RandBits(rng, NumSpins) :
         LET obj == New(nb.ham, NumSpins, rb.bits) IN
           /\ ising' = obj
           /\ rng' = rb.g
           /\ nb' = [nb EXCEPT
                      !.run = [NoRun EXCEPT !.cell = nb.cell, !.table = nb.T_exp,
                                            !.final = obj.spins],
                      !.log = IF rng.track
                              THEN [NoLog EXCEPT !.ham = nb.ham,
                                                 !.spins0 = obj.spins]
                              ELSE NoLog]
    /\ pc' = "anneal"
    /\ UNCHANGED <<space, call, runs, trace>>

\* one iteration of  for t in range(steps): E = ising.mc_step(T=T_exp[t])
AnnealStep(steps, next) ==
    /\ pc = "anneal"
    /\ Len(nb.run.temps) < steps
    /\ LET t == Len(nb.run.temps)
           T == nb.T_exp[t + 1]
           s == Spins(ising, space)
       IN  \E r \in mc_step(ising, s, rng, T) :
             LET run == [nb.run EXCEPT !.temps = Append(@, T),
                                       !.final = r.spins,
                                       !.E = r.E]
                 log == IF rng.track
                        THEN [nb.log EXCEPT !.sites = Append(@, r.site),
                                            !.accepts = Append(@, r.accepted)]
                        ELSE nb.log
                 last == (t + 1 = steps)
             IN  /\ ising' = StoreObj(ising, r.spins)
                 /\ space' = StoreSpace(ising, space, r.spins)
                 /\ rng' = r.g
                 /\ call' = StepCall(T, s, r)
                 /\ nb' = [nb EXCEPT !.t = t, !.E = r.E, !.run = run, !.log = log]
                 /\ runs' = IF last
                            THEN Append(runs, [cell |-> run.cell,
                                               table |-> run.table,
                                               temps |-> run.temps])
                            ELSE runs
                 /\ trace' = IF last /\ rng.track
                             THEN Append(trace, [cell |-> run.cell,
                                                 temps |-> run.temps,
                                                 ham |-> log.ham,
                                                 spins0 |-> log.spins0,
                                                 sites |-> log.sites,
                                                 accepts |-> log.accepts,
                                                 final |-> run.final,
                                                 E |-> run.E])
                             ELSE trace
                 /\ pc' = IF last THEN next ELSE "anneal"

Cell12_Step == nb.cell = 12 /\ AnnealStep(Cell12Steps, "space")

Cell16_Step == nb.cell = 16 /\ AnnealStep(Cell16Steps, "mc_energy")

\* dim = np.arange(2 ** ising.num_spins); space = ...; min = None
Cell14_Space ==
    /\ pc = "space"
    /\ space' = BuildSpace(ising.N)
    /\ nb' = [nb EXCEPT !.cell = 14, !.min = None, !.i = 0, !.evals = <<>>]
    /\ pc' = "search"
    /\ UNCHANGED <<ising, rng, call, runs, trace>>

\* one iteration of  for i in range(0, 2**ising.num_spins):
\*     ising.spins = space[i]; temp_energy = ising.energy(); min = ...
SearchStep(next) ==
    /\ pc = "search"
    /\ Len(nb.evals) < Pow2(ising.N)
    /\ LET i == Len(nb.evals)
           obj == [ising EXCEPT !.spins = <<>>, !.view = i]
           s == Spins(obj, space)
           c == EnergyCall(obj, s)
       IN  /\ ising' = obj
           /\ call' = c
           /\ nb' = [nb EXCEPT !.i = i, !.temp_energy = c.val,
                               !.min = MinUpdate(nb.min, c.val),
                               !.evals = Append(@, s)]
           /\ pc' = IF i + 1 = Pow2(ising.N) THEN next ELSE "search"
    /\ UNCHANGED <<space, rng, runs, trace>>

Cell14_Search == nb.cell = 14 /\ SearchStep("ground")

Cell16_Search == nb.cell = 16 /\ SearchStep("report")

\* print("The ground state is: ", min); then cell 16 starts
Cell14_Ground ==
    /\ pc = "ground"
    /\ nb' = [nb EXCEPT !.ground = nb.min, !.cell = 16, !.r = 0]
    /\ pc' = "schedule"
    /\ UNCHANGED <<ising, space, rng, call, runs, trace>>

\* mc_energy = ising.energy(); min = None
Cell16_McEnergy ==
    /\ pc = "mc_energy"
    /\ LET c == EnergyCall(ising, Spins(ising, space)) IN
         /\ call' = c
         /\ nb' = [nb EXCEPT !.mc_energy = c.val, !.min = None, !.i = 0,
                             !.evals = <<>>]
    /\ pc' = "search"
    /\ UNCHANGED <<ising, space, rng, runs, trace>>

\* the prints, the comparison, cur_r += 0.15, and the next i of range(0,20)
Cell16_Report ==
    /\ pc = "report"
    /\ nb' = [nb EXCEPT !.report = Report(nb.min, nb.mc_energy), !.r = @ + 1]
    /\ pc' = IF nb.r + 1 < NumR THEN "read" ELSE "done"
    /\ UNCHANGED <<ising, space, rng, call, runs, trace>>

NextNotebook ==
    \/ BuildSchedule
    \/ ReadHamiltonian
    \/ Seed
    \/ Construct
    \/ Cell12_Step
    \/ Cell14_Space
    \/ Cell14_Search
    \/ Cell14_Ground
    \/ Cell16_Step
    \/ Cell16_McEnergy
    \/ Cell16_Search
    \/ Cell16_Report

SpecNotebook == InitNotebook /\ [][NextNotebook]_vars

\* the same notebook with the seeded stream remembered
NextRepro == NextNotebook

SpecRepro == InitRepro /\ [][NextRepro]_vars

(***************************************************************************)
(* Reference quantities the properties are stated against.                 *)
(***************************************************************************)
RECURSIVE SetSum(_, _)
SetSum(S, f) ==
    IF S = {} THEN 0
    ELSE LET x == CHOOSE y \in S : TRUE IN f[x] + SetSum(S \ {x}, f)

\* the Hamiltonian as a sum over all index tuples, each counted once
Hamiltonian(m, s, n) ==
    LET I1 == Idx(n)
        I2 == Idx(n) \X Idx(n)
        I3 == Idx(n) \X Idx(n) \X Idx(n)
        I4 == Idx(n) \X Idx(n) \X Idx(n) \X Idx(n)
    IN  m.E0
        + SetSum(I1, [i \in I1 |-> m.h[i] * s[i]])
        + SetSum(I2, [p \in I2 |-> m.J[p] * s[p[1]] * s[p[2]]])
        + SetSum(I3, [p \in I3 |-> m.K[p] * s[p[1]] * s[p[2]] * s[p[3]]])
        + SetSum(I4, [p \in I4 |-> m.L[p] * s[p[1]] * s[p[2]] * s[p[3]] * s[p[4]]])

\* the least energy over all 2^n assignments
MinEnergy(m, n) ==
    LET es == { energy(m, s, n) : s \in Configs(n) }
    IN  CHOOSE e \in es : \A f \in es : e <= f

Now == Spins(ising, space)

InRangeDiff == call.op = "energy_diff" /\ call.arg \in Idx(ising.N)

(***************************************************************************)
(* Properties.                                                             *)
(***************************************************************************)
\* C1: for every model, configuration and site i in [0,N), energy_diff(i)
\* returns energy(spins with site i flipped) - energy(spins).
C1_DeltaConsistency ==
    InRangeDiff =>
        /\ call.raised = "no"
        /\ call.val = energy(ising, FlipAt(call.pre, call.arg), ising.N)
                      - energy(ising, call.pre, ising.N)

C1_Witness == InRangeDiff /\ call.val > 0

\* C2: energy() and energy_diff(i), i in [0,N), leave the spins entry for
\* entry as they were before the call, so any sequence of them does.
C2_SpinsUnmodified ==
    [][(call'.op = "energy"
        \/ (call'.op = "energy_diff" /\ call'.arg \in Idx(ising.N)))
       => /\ Spins(ising', space') = Now
          /\ call'.pre = Now]_vars

C2_Witness == InRangeDiff /\ call.val < 0 /\ Now = call.pre

\* C3: energy() returns E0 plus the sums of h, J, K, L terms over all index
\* tuples, every index ranging over [0,N) independently, repeated indices
\* and permutations included, and does not change the spins.
C3_FullSummation ==
    call.op = "energy" =>
        /\ call.val = Hamiltonian(ising, call.pre, ising.N)
        /\ Now = call.pre

C3_Witness ==
    /\ call.op = "energy"
    /\ call.val # energy_dedup(ising, call.pre, ising.N)

C8_OutOfRangeRaises ==
    (call.op = "energy_diff" /\ call.arg \notin Idx(ising.N)) =>
        /\ call.raised # "no"
        /\ Now = call.pre

SearchDone == pc \in {"ground", "report"}

\* C4 (as claimed): when the enumeration loop finishes, the reported minimum
\* is the least energy over all 2^N assignments and the model's spins at
\* loop exit have that energy.
C4_MinimizerHandedBack ==
    SearchDone =>
        /\ ~nb.min.none
        /\ nb.min.val = MinEnergy(ising, ising.N)
        /\ energy(ising, Now, ising.N) = nb.min.val

\* C4 (amended): when the enumeration loop finishes, the reported minimum is
\* the least energy over all 2^N assignments and is the energy of at least
\* one enumerated row; the model's spins at loop exit are the last row
\* enumerated (all +1), whose energy is at least the minimum.
C4_ExactMinimum ==
    SearchDone =>
        /\ ~nb.min.none
        /\ nb.min.val = MinEnergy(ising, ising.N)
        /\ \E k \in DOMAIN space : energy(ising, space[k], ising.N) = nb.min.val
        /\ Now = [b \in Idx(ising.N) |-> 1]
        /\ energy(ising, Now, ising.N) >= nb.min.val

C4_Witness == SearchDone /\ energy(ising, Now, ising.N) > nb.min.val

\* C5: the map from counter c to the configuration with site b = +1 iff bit
\* b of c is 1 is a bijection from [0, 2^N) onto {-1,+1}^N, and a finished
\* enumeration loop has evaluated every assignment exactly once.
C5_EnumerationBijective ==
    /\ space # <<>> =>
         /\ Len(space) = Pow2(ising.N)
         /\ \A k \in DOMAIN space : \A b \in Idx(ising.N) :
              space[k][b] = (IF ((k - 1) \div Pow2(b)) % 2 = 1 THEN 1 ELSE -1)
         /\ \A s \in Configs(ising.N) :
              Cardinality({ k \in DOMAIN space : space[k] = s }) = 1
    /\ SearchDone =>
         /\ Len(nb.evals) = Pow2(ising.N)
         /\ \A s \in Configs(ising.N) :
              Cardinality({ k \in DOMAIN nb.evals : nb.evals[k] = s }) = 1

C5_Witness == pc = "report" /\ nb.r = NumR - 1 /\ Len(nb.evals) = Pow2(ising.N)

\* C6 (as claimed): every annealing run makes exactly as many mc_step calls
\* as its temperature table has entries, step t receiving entry t.
C6_RunUsesWholeSchedule ==
    \A k \in DOMAIN runs :
        /\ Len(runs[k].temps) = Len(runs[k].table)
        /\ \A t \in DOMAIN runs[k].temps : runs[k].temps[t] = runs[k].table[t]

\* C9: two finished runs seeded alike, over the same coefficients and the
\* same temperatures, have the same initial spins, the same site choices
\* and accept/reject decisions at every step, and the same final
\* configuration and energy.
C9_Reproducible ==
    \A p \in DOMAIN trace : \A q \in DOMAIN trace :
        (trace[p].ham = trace[q].ham /\ trace[p].temps = trace[q].temps)
            => trace[p] = [trace[q] EXCEPT !.cell = trace[p].cell]

C9_Witness ==
    \E p \in DOMAIN trace : \E q \in DOMAIN trace :
        /\ p < q
        /\ trace[p].ham = trace[q].ham
        /\ trace[p].temps = trace[q].temps
        /\ \E k \in DOMAIN trace[q].accepts : trace[q].accepts[k]
        /\ \E k \in DOMAIN trace[q].accepts : ~trace[q].accepts[k]

Reported == nb.cell = 16 /\ nb.r > 0 /\ pc \in {"read", "done"}

\* C10: in every driver iteration mc_energy is the energy of the
\* configuration the annealing run left, the brute-force minimum of that
\* iteration is at most mc_energy, and "could find" is reported exactly when
\* they are equal, i.e. when the annealed configuration is a ground state.
C10_DriverReport ==
    /\ (nb.cell = 16 /\ pc \in {"search", "report"}) =>
         nb.mc_energy = energy(ising, nb.run.final, ising.N)
    /\ Reported =>
         /\ nb.mc_energy = energy(ising, nb.run.final, ising.N)
         /\ nb.min.val <= nb.mc_energy
         /\ (nb.report = "could") <=> (nb.mc_energy = nb.min.val)
         /\ (nb.report = "could")
              <=> (energy(ising, nb.run.final, ising.N) = MinEnergy(ising, ising.N))

C10_Witness ==
    /\ Reported
    /\ nb.report = "could"
    /\ \E s \in Configs(ising.N) : energy(ising, s, ising.N) > nb.min.val

\* C11: once cell 14 has built it, `space` is never modified: the search
\* loops bind ising.spins to a row of it (a view, not a copy), every
\* Metropolis step works on an array of the model's own, so no flip is left
\* in a row of `space`, and in every driver iteration the finished loop has
\* enumerated the same 2^N configurations, the table as built.
C11_SpaceNeverModified ==
    /\ space # <<>> => space = BuildSpace(NumSpins)
    /\ pc \in {"anneal", "mc_energy"} => ising.view = OwnArray
    /\ (pc = "search" /\ nb.evals # <<>>) => ising.view = Len(nb.evals) - 1
    /\ SearchDone =>
         /\ ising.view = Pow2(NumSpins) - 1
         /\ nb.evals = BuildSpace(NumSpins)

C11_Witness ==
    /\ space # <<>>
    /\ nb.cell = 16
    /\ nb.r = NumR - 1
    /\ pc = "mc_energy"
    /\ call.op = "mc_step"
    /\ call.accepted
    /\ Now # [b \in Idx(NumSpins) |-> 1]

====
